---- MODULE Spec2Model ----
\* Face-based attendance: SimpleFaceRecognizer (face_utils.py), the Attendance
\* ledger (models.py) and the group_attendance / manual_attendance views
\* (views.py), as a state machine of concurrent web requests over one database.
EXTENDS Integers, Sequences, FiniteSets, TLC

VARIABLES
    student,     \* Student table: row state and number of detectable faces in the reference photo
    attendance,  \* Attendance table: a set of rows
    mails,       \* attendance e-mails handed to send_mail, per (student, event)
    creations,   \* get_or_create calls that returned created = True, per (student, event)
    rec,         \* the long-lived SimpleFaceRecognizer instance used by recognize_face
    proc,        \* per worker: the request it is serving and its local variables
    started,     \* number of requests started so far
    files,       \* MEDIA_ROOT/temp: the content of each temporary file
    status       \* Event.status of each event

vars == <<student, attendance, mails, creations, rec, proc, started, files, status>>

-----------------------------------------------------------------------------
\* Bounds of the model: requests served in one run, and faces detected in
\* one reference photo

MaxRequests == 2
MaxRefFaces == 1
\* calls made on the long-lived recognizer instance in one run
MaxCalls == 3

\* Program constant: the LBPH distance cutoff
Threshold == 70

\* workers, students, events; StudentOrder is the primary-key order of the
\* Student rows, in which load_and_train iterates them
Procs == {"p1", "p2"}
ProcOrder == <<"p1", "p2">>
Students == {"s1", "s2"}
Events == {"e1"}
StudentOrder == <<"s1", "s2">>
None == "None"
Coordinator == "coord"
Admin == "admin"
NotesPrefix == "Manually marked by admin. "

\* A face of an uploaded photo is given by its LBPH distance to the reference
\* faces of each student.
FaceA == [s \in Students |-> IF s = "s1" THEN 50 ELSE 90]
FaceB == [s \in Students |-> IF s = "s2" THEN 50 ELSE 90]
FaceFar == [s \in Students |-> IF s = "s1" THEN 90 ELSE 80]
FaceEdge == [s \in Students |-> IF s = "s2" THEN 70 ELSE 95]

Photos == {"bad", "empty", "scnB", "scnC"}
\* the photos given to recognize_face
CallPhotos == {"bad", "empty", "scnC", "scnD"}

\* the names uploads come with, and the file name of each worker's upload
\* when no two uploads in progress share one
FileNames == {"g1", "g2"}
OwnName(p) == IF p = "p1" THEN "g1" ELSE "g2"

\* a temporary file that does not exist, or was opened 'wb+' and not yet written
Absent == "absent"
Truncated == "truncated"

\* cv2.imread returns None for an undecodable, empty or missing file
Readable(photo) == photo \notin {"bad", Absent, Truncated}

\* detectMultiScale on the decoded photo: the faces, in detection order
Detect(photo) ==
    CASE photo = "scnB" -> <<FaceA, FaceB, FaceFar>>
      [] photo = "scnC" -> <<FaceA, FaceA, FaceEdge>>
      [] photo = "scnD" -> <<FaceB, FaceA>>
      [] OTHER -> <<>>

\* the manual submissions tried: the selected students and the admin_notes field
ManualPosts ==
    {[ids |-> <<"s1", "s2">>, notes |-> ""],
     [ids |-> <<"s2", "s2">>, notes |-> "late"]}

-----------------------------------------------------------------------------
\* Pure helpers

SeqToSet(q) == {q[k] : k \in 1..Len(q)}

NoDup(q) == \A a, b \in 1..Len(q) : q[a] = q[b] => a = b

SetMin(S) == CHOOSE x \in S : \A y \in S : x <= y

RECURSIVE Repeat(_, _)
Repeat(x, n) == IF n = 0 THEN <<>> ELSE <<x>> \o Repeat(x, n - 1)

\* variant: the is_active filter left out
IsPresent(st, s) == st[s].st \in {"active", "inactive"}
\* Student.objects.filter(is_active=True) / .get(..., is_active=True)
IsActive(st, s) == st[s].st = "active"

\* load_and_train, the loops: one (face, label) per face detected in the
\* reference photo of each active student; the result is label_ids as a
\* sequence (label l is element l + 1)
RECURSIVE TrainingLabels(_, _)
TrainingLabels(st, k) ==
    IF k > Len(StudentOrder) THEN <<>>
    ELSE LET s == StudentOrder[k]
         IN (IF IsActive(st, s) THEN Repeat(s, st[s].nf) ELSE <<>>)
            \o TrainingLabels(st, k + 1)

\* variant: the label of the last training face is not recorded in label_ids
LoadAndTrainShort(r, st) ==
    LET l == TrainingLabels(st, 1)
    IN IF Len(l) > 0
       THEN [ret |-> TRUE, r |-> [model |-> l, has |-> TRUE, lids |-> SubSeq(l, 1, Len(l) - 1)]]
       ELSE [ret |-> FALSE, r |-> r]
\* load_and_train on a recognizer r = [model, has, lids]:
\* trains and sets label_ids only when there is at least one face
LoadAndTrain(r, st) ==
    LET l == TrainingLabels(st, 1)
    IN IF Len(l) > 0
       THEN [ret |-> TRUE, r |-> [model |-> l, has |-> TRUE, lids |-> l]]
       ELSE [ret |-> FALSE, r |-> r]

\* self.recognizer.predict(face_roi) on a trained LBPH model: nearest
\* training sample, first one on ties; confidence is its distance
Predict(model, face) ==
    LET d == SetMin({face[model[k]] : k \in 1..Len(model)})
        k0 == SetMin({k \in 1..Len(model) : face[model[k]] = d})
    IN [label |-> k0 - 1, confidence |-> d]

\* self.label_ids.get(label)
LabelGet(lids, label) ==
    IF label + 1 \in 1..Len(lids) THEN lids[label + 1] ELSE None

\* variant: the comparison turned round, the distance read as a similarity
AcceptAbove(c, cutoff) == c > cutoff
\* the acceptance test "confidence < cutoff" (lower distance is better)
AcceptAt(c, cutoff) == c < cutoff

\* variant: the cutoff compared with <=
AcceptConfLe(c) == c <= Threshold
\* confidence < 70
AcceptConf(c) == AcceptAt(c, Threshold)

\* Attendance rows of a (student, event) pair
Rows(att, s, e) == {r \in att : r.student = s /\ r.event = e}

\* variant: no unique constraint on the table
NoUniqueViolation(att, s, e) == FALSE
\* unique_together = ['student', 'event']: the INSERT fails when the pair has a row
UniqueViolation(att, s, e) == Rows(att, s, e) # {}

\* variant: update_or_create, which overwrites the found row with the defaults
UpdateFound(att, s, e, defaults) ==
    {IF r.student = s /\ r.event = e
     THEN [r EXCEPT !.marked_by = defaults.marked_by,
                    !.is_manual = defaults.is_manual,
                    !.notes = defaults.notes]
     ELSE r : r \in att}
\* get_or_create found a row: it is returned as it is, the defaults are not applied
KeepFound(att, s, e, defaults) == att

\* variant: the count incremented outside "if created"
CountAlways(count, created) == count + 1
\* if created: attendance_count += 1
NextCount(count, created) == IF created THEN count + 1 ELSE count

\* variant: the e-mail sent outside "if created"
NotifyAlways(created) == TRUE
\* if created: send_mail(...)
NotifyOn(created) == created

\* a new row; id tells the rows of one (student, event) pair apart and
\* attendance_time (auto_now_add) is the ordinal of the creating request
NewRow(att, s, e, now, defaults) ==
    [id |-> Cardinality(Rows(att, s, e)) + 1, student |-> s, event |-> e,
     attendance_time |-> now,
     marked_by |-> defaults.marked_by, is_manual |-> defaults.is_manual,
     notes |-> defaults.notes]

\* a notes text is the sequence of its pieces (None is no piece at all)
NotesEmpty(notes) == \A k \in 1..Len(notes) : notes[k] = ""

GroupDefaults == [marked_by |-> Coordinator, is_manual |-> FALSE, notes |-> <<>>]
\* variant: the notes are the admin_notes field alone
ManualDefaultsBare(admin_notes) ==
    [marked_by |-> Admin, is_manual |-> TRUE, notes |-> <<admin_notes>>]
\* f'Manually marked by admin. {admin_notes}'
ManualDefaults(admin_notes) ==
    [marked_by |-> Admin, is_manual |-> TRUE, notes |-> <<NotesPrefix, admin_notes>>]

-----------------------------------------------------------------------------
\* State

NoRecognizer == [model |-> <<>>, has |-> FALSE, lids |-> <<>>]

Idle ==
    [pc |-> "idle", kind |-> "none", photo |-> "none", event |-> "none",
     ids |-> <<>>, notes |-> "", r |-> NoRecognizer, trainRet |-> "none",
     predicted |-> FALSE, results |-> <<>>, recognized |-> <<>>, i |-> 0,
     count |-> 0, conflict |-> FALSE, created |-> FALSE, made |-> <<>>,
     mailed |-> <<>>, now |-> 0, last |-> None,
     outcome |-> "none", cause |-> "none", result |-> None,
     stable |-> FALSE, repeat |-> FALSE,
     seen |-> NoRecognizer, wrote |-> FALSE, name |-> "none", upload |-> "none"]

\* the tables and workers at the start; the event exists
InitStore ==
    /\ student = [s \in Students |-> [st |-> "none", nf |-> 0]]
    /\ attendance = {}
    /\ mails = [s \in Students, e \in Events |-> 0]
    /\ creations = [s \in Students, e \in Events |-> 0]
    /\ rec = NoRecognizer
    /\ proc = [p \in Procs |-> Idle]
    /\ started = 0
    /\ files = [n \in FileNames |-> Absent]

\* the event has been approved, as the attendance forms require
Init == InitStore /\ status = [e \in Events |-> "approved"]

\* the event has just been created: status defaults to 'pending'
InitEvents == InitStore /\ status = [e \in Events |-> "pending"]

Set(p, f) == proc' = [proc EXCEPT ![p] = f]

\* a new request goes to the first free worker
Free(p) ==
    /\ proc[p].pc = "idle"
    /\ \A k \in 1..Len(ProcOrder) :
          proc[ProcOrder[k]].pc = "idle" => \E j \in 1..k : ProcOrder[j] = p
    /\ started < MaxRequests

\* the same dispatch for calls on the recognizer instance
CallFree(p) ==
    /\ proc[p].pc = "idle"
    /\ \A k \in 1..Len(ProcOrder) :
          proc[ProcOrder[k]].pc = "idle" => \E j \in 1..k : ProcOrder[j] = p
    /\ started < MaxCalls

Faces(p) == Detect(proc[p].photo)

\* the student and the defaults of the get_or_create the request is at
Target(p) == IF proc[p].kind = "ga" THEN proc[p].recognized[proc[p].i] ELSE proc[p].ids[proc[p].i]
Defaults(p) == IF proc[p].kind = "ga" THEN GroupDefaults ELSE ManualDefaults(proc[p].notes)
Targets(p) == IF proc[p].kind = "ga" THEN proc[p].recognized ELSE proc[p].ids

\* variant: the temporary file is left behind
KeepTemp(fs, name) == fs
\* if os.path.exists(temp_path): os.remove(temp_path)
RemoveTemp(fs, name) == [fs EXCEPT ![name] = Absent]

\* the clean-up at the end of group_attendance, when request p leaves the view
Cleanup(p, leaves) ==
    files' = IF leaves /\ proc[p].kind = "ga" THEN RemoveTemp(files, proc[p].name) ELSE files

\* an exception leaves the marking loop: group_attendance catches it
\* (except Exception), manual_attendance lets it escape the view
Raise(p) ==
    /\ Set(p, [proc[p] EXCEPT !.pc = "done",
                              !.outcome = IF proc[p].kind = "ga" THEN "error" ELSE "crash"])
    /\ Cleanup(p, TRUE)
    /\ UNCHANGED <<status, student, attendance, mails, creations, rec, started>>

\* the loop body after get_or_create returned (attendance, created)
AfterWrite(p, created, conflict) ==
    LET s == Target(p)
        e == proc[p].event
        last == proc[p].i = Len(Targets(p))
    IN /\ Set(p, [proc[p] EXCEPT
                !.count = NextCount(@, created),
                !.created = created,
                !.last = s,
                !.conflict = conflict,
                !.made = IF created THEN Append(@, s) ELSE @,
                !.mailed = IF NotifyOn(created) THEN Append(@, s) ELSE @,
                !.i = @ + 1,
                !.pc = IF last THEN "done" ELSE "get",
                !.outcome = IF last THEN "ok" ELSE @])
       /\ Cleanup(p, last)
       /\ mails' = IF NotifyOn(created) THEN [mails EXCEPT ![s, e] = @ + 1] ELSE mails
       /\ creations' = IF created THEN [creations EXCEPT ![s, e] = @ + 1] ELSE creations

\* get_or_create, first query: self.get(student=..., event=...)
GetStep(p) ==
    LET s == Target(p)
        e == proc[p].event
        n == Cardinality(Rows(attendance, s, e))
    IN CASE n = 0 ->
              /\ Set(p, [proc[p] EXCEPT !.pc = "insert", !.conflict = FALSE])
              /\ UNCHANGED <<files, status, student, attendance, mails, creations, rec, started>>
         [] n = 1 ->
              /\ attendance' = KeepFound(attendance, s, e, Defaults(p))
              /\ AfterWrite(p, FALSE, FALSE)
              /\ UNCHANGED <<status, student, rec, started>>
         [] OTHER -> Raise(p)

\* get_or_create, the INSERT inside transaction.atomic()
InsertStep(p) ==
    LET s == Target(p)
        e == proc[p].event
    IN IF student[s].st = "deleted"
       THEN Raise(p)
       ELSE IF UniqueViolation(attendance, s, e)
       THEN /\ Set(p, [proc[p] EXCEPT !.pc = "reget", !.conflict = TRUE])
            /\ UNCHANGED <<files, status, student, attendance, mails, creations, rec, started>>
       ELSE /\ attendance' = attendance \cup {NewRow(attendance, s, e, proc[p].now, Defaults(p))}
            /\ AfterWrite(p, TRUE, FALSE)
            /\ UNCHANGED <<status, student, rec, started>>

\* get_or_create, after IntegrityError: self.get(...) again, else re-raise
RegetStep(p) ==
    LET s == Target(p)
        e == proc[p].event
    IN IF Cardinality(Rows(attendance, s, e)) = 1
       THEN /\ attendance' = KeepFound(attendance, s, e, Defaults(p))
            /\ AfterWrite(p, FALSE, TRUE)
            /\ UNCHANGED <<status, student, rec, started>>
       ELSE Raise(p)

-----------------------------------------------------------------------------
\* Enrollment store

\* every request in progress or finished has now seen an enrollment change
Unsettled == [p \in Procs |-> [proc[p] EXCEPT !.stable = FALSE]]

add_student(s, active, nf) ==
    /\ student[s].st = "none"
    /\ active \/ nf = 0
    /\ student' = [student EXCEPT ![s] =
            [st |-> IF active THEN "active" ELSE "inactive", nf |-> nf]]
    /\ proc' = Unsettled
    /\ UNCHANGED <<files, status, attendance, mails, creations, rec, started>>

delete_student(s) ==
    /\ student[s].st \in {"active", "inactive"}
    /\ student' = [student EXCEPT ![s] = [st |-> "deleted", nf |-> 0]]
    /\ attendance' = {r \in attendance : r.student # s}
    /\ proc' = Unsettled
    /\ UNCHANGED <<files, status, mails, creations, rec, started>>

-----------------------------------------------------------------------------
\* Event approval (the Notification row and the e-mail to the coordinator
\* are not part of the state)

approve_event(e) ==
    /\ status' = [status EXCEPT ![e] = "approved"]
    /\ UNCHANGED <<files, student, attendance, mails, creations, rec, proc, started>>

reject_event(e) ==
    /\ status' = [status EXCEPT ![e] = "rejected"]
    /\ UNCHANGED <<files, student, attendance, mails, creations, rec, proc, started>>

-----------------------------------------------------------------------------
\* group_attendance

\* group_attendance from cv2.imread(temp_path) to the training of its
\* recognizer; fs is the temp directory at the time of the read
ReadImage(p, base, fs) ==
    LET photo == fs[base.name]
        b == [base EXCEPT !.photo = photo]
    IN IF ~Readable(photo)
       THEN /\ Set(p, [b EXCEPT !.pc = "done", !.outcome = "invalid_image"])
            /\ files' = RemoveTemp(fs, base.name)
       ELSE IF Len(Detect(photo)) = 0
       THEN /\ Set(p, [b EXCEPT !.pc = "done", !.outcome = "no_faces"])
            /\ files' = RemoveTemp(fs, base.name)
       ELSE LET tr == LoadAndTrain(b.r, student)
            IN /\ Set(p, [b EXCEPT !.r = tr.r,
                                   !.trainRet = IF tr.ret THEN "True" ELSE "False",
                                   !.pc = "face", !.i = 1])
               /\ files' = fs

\* a POST whose upload has a file name no other request in progress uses:
\* the temporary file is written and read back undisturbed
GA_Post(p, photo, e) ==
    /\ Free(p)
    /\ started' = started + 1
    /\ LET base == [Idle EXCEPT !.kind = "ga", !.event = e,
                                !.stable = TRUE, !.now = started + 1,
                                !.name = OwnName(p), !.upload = photo,
                                !.repeat = \E q \in Procs \ {p} :
                                    /\ proc[q].pc = "done" /\ proc[q].kind = "ga"
                                    /\ proc[q].outcome = "ok"
                                    /\ proc[q].photo = photo /\ proc[q].event = e
                                    /\ proc[q].stable]
       IN ReadImage(p, base, [files EXCEPT ![base.name] = photo])
    /\ UNCHANGED <<status, student, attendance, mails, creations, rec>>

\* a POST whose upload may share its file name with another request in
\* progress: open(temp_path, 'wb+') creates or truncates the file
UP_Post(p, name, photo, e) ==
    /\ Free(p)
    /\ started' = started + 1
    /\ Set(p, [Idle EXCEPT !.kind = "ga", !.event = e, !.stable = TRUE,
                           !.now = started + 1, !.name = name, !.upload = photo,
                           !.pc = "write"])
    /\ files' = [files EXCEPT ![name] = Truncated]
    /\ UNCHANGED <<status, student, attendance, mails, creations, rec>>

\* destination.write(chunk), to the close of the file
UP_Write(p) ==
    /\ proc[p].kind = "ga" /\ proc[p].pc = "write"
    /\ Set(p, [proc[p] EXCEPT !.pc = "read"])
    /\ files' = [files EXCEPT ![proc[p].name] = proc[p].upload]
    /\ UNCHANGED <<status, student, attendance, mails, creations, rec, started>>

\* cv2.imread(temp_path) and what follows it, on the file as it is now
UP_Read(p) ==
    /\ proc[p].kind = "ga" /\ proc[p].pc = "read"
    /\ ReadImage(p, proc[p], files)
    /\ UNCHANGED <<status, student, attendance, mails, creations, rec, started>>

GA_Face(p) ==
    /\ proc[p].kind = "ga" /\ proc[p].pc = "face"
    /\ LET r == proc[p].r
           f == Faces(p)[proc[p].i]
       IN IF Len(r.model) = 0
          THEN \* predict on an untrained LBPH model raises cv2.error
               /\ Set(p, [proc[p] EXCEPT !.predicted = TRUE, !.pc = "done", !.outcome = "error"])
               /\ Cleanup(p, TRUE)
          ELSE LET pr == Predict(r.model, f)
                   sid == LabelGet(r.lids, pr.label)
                   found == sid # None /\ IsActive(student, sid)
                   take == AcceptConf(pr.confidence) /\ r.has /\ found
                   recog == IF take THEN Append(proc[p].recognized, sid) ELSE proc[p].recognized
                   last == proc[p].i = Len(Faces(p))
               IN /\ Cleanup(p, last /\ Len(recog) = 0)
                  /\ Set(p, [proc[p] EXCEPT
                        !.predicted = TRUE,
                        !.results = Append(@, [label |-> pr.label, confidence |-> pr.confidence,
                                               identity |-> IF pr.confidence < Threshold /\ found
                                                            THEN sid ELSE None]),
                        !.recognized = recog,
                        !.i = IF last THEN 1 ELSE @ + 1,
                        !.pc = IF ~last THEN "face" ELSE IF Len(recog) = 0 THEN "done" ELSE "get",
                        !.outcome = IF last /\ Len(recog) = 0 THEN "ok" ELSE @])
    /\ UNCHANGED <<status, student, attendance, mails, creations, rec, started>>

GA_Get(p) == proc[p].kind = "ga" /\ proc[p].pc = "get" /\ GetStep(p)
GA_Insert(p) == proc[p].kind = "ga" /\ proc[p].pc = "insert" /\ InsertStep(p)
GA_Reget(p) == proc[p].kind = "ga" /\ proc[p].pc = "reget" /\ RegetStep(p)

-----------------------------------------------------------------------------
\* manual_attendance

MA_Post(p, e, ids, notes) ==
    /\ Free(p)
    /\ started' = started + 1
    /\ LET base == [Idle EXCEPT !.kind = "ma", !.event = e, !.ids = ids, !.notes = notes,
                                !.stable = TRUE, !.now = started + 1]
       IN IF Len(ids) = 0
          THEN Set(p, [base EXCEPT !.pc = "done", !.outcome = "missing"])
          ELSE Set(p, [base EXCEPT !.pc = "get", !.i = 1])
    /\ UNCHANGED <<files, status, student, attendance, mails, creations, rec>>

\* Student.objects.get(id=student_id, is_active=True), then the first query of get_or_create
MA_Get(p) ==
    /\ proc[p].kind = "ma" /\ proc[p].pc = "get"
    /\ IF IsActive(student, Target(p))
       THEN GetStep(p)
       ELSE LET last == proc[p].i = Len(proc[p].ids)
            IN /\ Set(p, [proc[p] EXCEPT !.i = @ + 1,
                                         !.pc = IF last THEN "done" ELSE "get",
                                         !.outcome = IF last THEN "ok" ELSE @])
               /\ UNCHANGED <<files, status, student, attendance, mails, creations, rec, started>>

MA_Insert(p) == proc[p].kind = "ma" /\ proc[p].pc = "insert" /\ InsertStep(p)
MA_Reget(p) == proc[p].kind = "ma" /\ proc[p].pc = "reget" /\ RegetStep(p)

-----------------------------------------------------------------------------
\* SimpleFaceRecognizer.recognize_face on the long-lived instance

RECURSIVE FirstAccepted(_, _, _)
FirstAccepted(r, faces, k) ==
    IF k > Len(faces) THEN [result |-> None, cause |-> "no_match"]
    ELSE LET pr == Predict(r.model, faces[k])
         IN IF AcceptConf(pr.confidence)
            THEN LET sid == LabelGet(r.lids, pr.label)
                 IN [result |-> sid, cause |-> IF sid = None THEN "unmapped" ELSE "match"]
            ELSE FirstAccepted(r, faces, k + 1)

\* self.recognizer.train(faces, labels): the model is replaced, label_ids not yet
TrainStep(r, l) == [r EXCEPT !.model = l]

\* self.label_ids = label_ids
AssignStep(r, l) == [r EXCEPT !.has = TRUE, !.lids = l]

\* variant: a failed training drops what the instance held
TrainFailureReset(r) == NoRecognizer
\* load_and_train returning False (no faces, or an exception): self is not touched
TrainFailure(r) == r

RF_Call(p, photo) ==
    /\ CallFree(p)
    /\ started' = started + 1
    /\ Set(p, [Idle EXCEPT !.kind = "rf", !.photo = photo,
                           !.pc = IF rec.has THEN "run" ELSE "train"])
    /\ UNCHANGED <<files, status, student, attendance, mails, creations, rec>>

\* an explicit load_and_train() on the instance
LT_Call(p) ==
    /\ CallFree(p)
    /\ started' = started + 1
    /\ Set(p, [Idle EXCEPT !.kind = "lt", !.pc = "train"])
    /\ UNCHANGED <<files, status, student, attendance, mails, creations, rec>>

\* load_and_train up to and including recognizer.train; exc: an exception is
\* raised while the reference photos are read
LT_Train(p, exc) ==
    /\ proc[p].kind \in {"rf", "lt"} /\ proc[p].pc = "train"
    /\ LET l == TrainingLabels(student, 1)
           r1 == IF exc \/ Len(l) = 0 THEN TrainFailure(rec) ELSE TrainStep(rec, l)
       IN /\ rec' = r1
          /\ IF exc \/ Len(l) = 0
             THEN Set(p, [proc[p] EXCEPT !.pc = "done", !.trainRet = "False",
                              !.outcome = "returned", !.wrote = (r1 # rec),
                              !.cause = IF proc[p].kind = "rf" THEN "untrainable" ELSE "none"])
             ELSE Set(p, [proc[p] EXCEPT !.pc = "assign", !.wrote = (r1 # rec),
                              !.r = [model |-> l, has |-> TRUE, lids |-> l]])
    /\ UNCHANGED <<files, status, student, attendance, mails, creations, started>>

\* load_and_train from "self.label_ids = label_ids" to its return
LT_Assign(p) ==
    /\ proc[p].kind \in {"rf", "lt"} /\ proc[p].pc = "assign"
    /\ LET r1 == AssignStep(rec, proc[p].r.lids)
       IN /\ rec' = r1
          /\ Set(p, [proc[p] EXCEPT !.trainRet = "True",
                         !.wrote = proc[p].wrote \/ (r1 # rec),
                         !.pc = IF proc[p].kind = "rf" THEN "run" ELSE "done",
                         !.outcome = IF proc[p].kind = "rf" THEN "none" ELSE "returned"])
    /\ UNCHANGED <<files, status, student, attendance, mails, creations, started>>

\* recognize_face from imread to its return; seen is the (model, label_ids)
\* pair the call read
RF_Run(p) ==
    /\ proc[p].kind = "rf" /\ proc[p].pc = "run"
    /\ LET faces == Faces(p)
           out == IF ~Readable(proc[p].photo) THEN [result |-> None, cause |-> "unreadable"]
                  ELSE IF Len(faces) = 0 THEN [result |-> None, cause |-> "no_face"]
                  ELSE FirstAccepted(rec, faces, 1)
       IN Set(p, [proc[p] EXCEPT !.pc = "done", !.outcome = "returned",
                                 !.predicted = Readable(proc[p].photo) /\ Len(faces) > 0,
                                 !.seen = rec,
                                 !.result = out.result, !.cause = out.cause])
    /\ UNCHANGED <<files, status, student, attendance, mails, creations, rec, started>>

\* the response has been sent; the worker is free again
Return(p) ==
    /\ proc[p].pc = "done"
    /\ Set(p, Idle)
    /\ UNCHANGED <<files, status, student, attendance, mails, creations, rec, started>>

Enroll ==
    \/ \E s \in Students, a \in BOOLEAN, nf \in 0..MaxRefFaces : add_student(s, a, nf)
    \/ \E s \in Students : delete_student(s)

Next ==
    \/ Enroll
    \/ \E p \in Procs, ph \in Photos, e \in Events : GA_Post(p, ph, e)
    \/ \E p \in Procs : GA_Face(p)
    \/ \E p \in Procs : GA_Get(p)
    \/ \E p \in Procs : GA_Insert(p)
    \/ \E p \in Procs : GA_Reget(p)
    \/ \E p \in Procs, e \in Events, m \in ManualPosts : MA_Post(p, e, m.ids, m.notes)
    \/ \E p \in Procs : MA_Get(p)
    \/ \E p \in Procs : MA_Insert(p)
    \/ \E p \in Procs : MA_Reget(p)
    \/ \E p \in Procs : Return(p)

Spec == Init /\ [][Next]_vars

\* submissions for an event that is pending, approved or rejected
NextEvents ==
    \/ Next
    \/ \E e \in Events : approve_event(e)
    \/ \E e \in Events : reject_event(e)

SpecEvents == InitEvents /\ [][NextEvents]_vars

\* group submissions whose uploads may carry the same file name
NextUpload ==
    \/ Enroll
    \/ \E p \in Procs, n \in FileNames, ph \in Photos, e \in Events : UP_Post(p, n, ph, e)
    \/ \E p \in Procs : UP_Write(p)
    \/ \E p \in Procs : UP_Read(p)
    \/ \E p \in Procs : GA_Face(p)
    \/ \E p \in Procs : GA_Get(p)
    \/ \E p \in Procs : GA_Insert(p)
    \/ \E p \in Procs : GA_Reget(p)
    \/ \E p \in Procs : Return(p)

SpecUpload == Init /\ [][NextUpload]_vars

\* one recognizer instance under concurrent recognize_face and load_and_train calls
NextRecognizer ==
    \/ Enroll
    \/ \E p \in Procs, ph \in CallPhotos : RF_Call(p, ph)
    \/ \E p \in Procs : LT_Call(p)
    \/ \E p \in Procs, exc \in BOOLEAN : LT_Train(p, exc)
    \/ \E p \in Procs : LT_Assign(p)
    \/ \E p \in Procs : RF_Run(p)
    \/ \E p \in Procs : Return(p)

SpecRecognizer == Init /\ [][NextRecognizer]_vars

-----------------------------------------------------------------------------
\* Properties

GroupReq(p) == proc[p].kind = "ga"
ManualReq(p) == proc[p].kind = "ma"
Failed(p) == proc[p].outcome \in {"error", "crash"}

\* the student of the get_or_create that request p finished last
LastTarget(p) == proc[p].last

\* request p has finished at least one get_or_create
HasWritten(p) == proc[p].last # None

\* C1: at most one Attendance row per (student, event) pair, in every
\* reachable state of any interleaving of group and manual submissions.
C1_AtMostOneRecord ==
    \A s \in Students, e \in Events : Cardinality(Rows(attendance, s, e)) <= 1

\* a group and a manual submission have both written the same pair
C1_Witness ==
    \E p, q \in Procs, s \in Students :
        /\ GroupReq(p) /\ ManualReq(q)
        /\ proc[p].pc = "done" /\ proc[q].pc = "done"
        /\ proc[p].outcome = "ok" /\ proc[q].outcome = "ok"
        /\ proc[p].event = proc[q].event
        /\ s \in SeqToSet(proc[p].recognized) /\ s \in SeqToSet(proc[q].ids)
        /\ proc[p].made = <<s>> \/ s \in SeqToSet(proc[q].made)
        /\ Cardinality(Rows(attendance, s, proc[p].event)) = 1

\* C2: of the get_or_create calls racing for one (student, event) pair exactly
\* one returns created = True; a call that lost the race (IntegrityError on
\* its INSERT) returns created = False and raises nothing while the row exists.
C2_ExactlyOneCreated ==
    /\ \A s \in Students, e \in Events :
          /\ creations[s, e] <= 1
          /\ Rows(attendance, s, e) # {} => creations[s, e] = 1
    /\ \A p \in Procs :
          proc[p].conflict /\ proc[p].pc # "reget" =>
              IF Failed(p)
              THEN student[Target(p)].st = "deleted"
              ELSE ~proc[p].created /\ creations[LastTarget(p), proc[p].event] = 1

\* two requests raced for a pair: one created the row, the other hit the
\* unique constraint and got created = False
C2_Witness ==
    \E p, q \in Procs :
        /\ p # q
        /\ proc[q].conflict /\ HasWritten(q) /\ ~Failed(q) /\ ~proc[q].created
        /\ proc[p].event = proc[q].event
        /\ LastTarget(q) \in SeqToSet(proc[p].made)

\* C3: a group submission that repeats a completed submission of the same
\* photo for the same event, with no enrollment change or deletion in between,
\* creates nothing: its count is 0 and every recognized student already has a row.
C3_RepeatCreatesNothing ==
    \A p \in Procs :
        (/\ GroupReq(p) /\ proc[p].pc = "done" /\ proc[p].outcome = "ok"
         /\ proc[p].repeat /\ proc[p].stable)
        => /\ proc[p].count = 0
           /\ proc[p].made = <<>>
           /\ \A k \in 1..Len(proc[p].recognized) :
                 Rows(attendance, proc[p].recognized[k], proc[p].event) # {}

C3_Witness ==
    \E p \in Procs :
        /\ GroupReq(p) /\ proc[p].pc = "done" /\ proc[p].outcome = "ok"
        /\ proc[p].repeat /\ proc[p].stable
        /\ Len(proc[p].recognized) >= 2
        /\ proc[p].count = 0

\* C4: a get_or_create that finds a row for its pair changes no row, returns
\* created = False, counts nothing and raises nothing.
C4_DuplicateWriteNoMutation ==
    [][\A p \in Procs :
          (/\ proc[p].pc \in {"get", "reget"}
           /\ proc'[p].pc # proc[p].pc \/ proc'[p].i # proc[p].i
           /\ Rows(attendance, Target(p), proc[p].event) # {}
           /\ ManualReq(p) => IsActive(student, Target(p)))
          => /\ attendance' = attendance
             /\ ~proc'[p].created
             /\ proc'[p].count = proc[p].count
             /\ proc'[p].mailed = proc[p].mailed
             /\ ~Failed(p)']_vars

\* a manual submission wrote a pair that already had an automatic row, and
\* the row is still automatic
C4_Witness ==
    \E p \in Procs :
        /\ ManualReq(p) /\ HasWritten(p) /\ ~proc[p].created /\ ~Failed(p)
        /\ \E r \in Rows(attendance, LastTarget(p), proc[p].event) :
              ~r.is_manual /\ r.marked_by = Coordinator /\ r.attendance_time < proc[p].now

\* C5: once training has returned False, the request never calls the
\* classifier's predict.
C5_NoPredictWhenUntrainable ==
    \A p \in Procs : proc[p].trainRet = "False" => ~proc[p].predicted

\* C6: the outcome of a recognition attempted on an untrainable model differs
\* from the outcome of a recognition that ran and matched nothing.
C6_UntrainableDistinguishable ==
    \A p, q \in Procs :
        (/\ proc[p].kind = "rf" /\ proc[q].kind = "rf"
         /\ proc[p].pc = "done" /\ proc[q].pc = "done"
         /\ proc[p].cause = "untrainable" /\ proc[q].cause = "no_match")
        => proc[p].result # proc[q].result

\* identities of the accepted results: confidence below the threshold and
\* a label that resolves to an identity
Accepted(results) ==
    {results[k].identity : k \in {j \in 1..Len(results) :
        results[j].confidence < Threshold /\ results[j].identity # None}}

\* C7: the students a group submission attempts to write are exactly the
\* identities of its accepted faces; no other face leads to a write or a row.
C7_AcceptedExactly ==
    \A p \in Procs :
        GroupReq(p) =>
            /\ SeqToSet(proc[p].recognized) = Accepted(proc[p].results)
            /\ SeqToSet(proc[p].made) \subseteq Accepted(proc[p].results)
            /\ proc[p].count <= Cardinality(Accepted(proc[p].results))
            /\ proc[p].pc \in {"get", "insert", "reget"} => Target(p) \in Accepted(proc[p].results)

\* three faces, two below the threshold for s1 and s2 and one above it:
\* exactly two new automatic rows, for s1 and s2
C7_Witness ==
    \E p \in Procs :
        /\ GroupReq(p) /\ proc[p].photo = "scnB"
        /\ proc[p].pc = "done" /\ proc[p].outcome = "ok"
        /\ Len(proc[p].results) = 3
        /\ proc[p].results[3].confidence > Threshold
        /\ proc[p].made = <<"s1", "s2">> /\ proc[p].count = 2
        /\ \A s \in Students : \E r \in Rows(attendance, s, proc[p].event) : ~r.is_manual

\* C8: one group submission creates at most one row per student and sends
\* at most one attendance e-mail per student.
C8_OnePerStudentPerSubmission ==
    \A p \in Procs : GroupReq(p) => NoDup(proc[p].made) /\ NoDup(proc[p].mailed)

\* two faces of one photo resolved to s1: one row, one e-mail
C8_Witness ==
    \E p \in Procs :
        /\ GroupReq(p) /\ proc[p].pc = "done" /\ proc[p].outcome = "ok"
        /\ Len(proc[p].recognized) = 2
        /\ proc[p].recognized[1] = proc[p].recognized[2]
        /\ proc[p].made = <<proc[p].recognized[1]>>
        /\ proc[p].mailed = <<proc[p].recognized[1]>>

\* C9: the list of recognized students of a submission holds each identity
\* at most once, so its length is the number of distinct accepted identities.
C9_MatchesCollapsed ==
    \A p \in Procs :
        GroupReq(p) =>
            /\ NoDup(proc[p].recognized)
            /\ Len(proc[p].recognized) = Cardinality(Accepted(proc[p].results))

\* C10: every created = True sends exactly one e-mail and a duplicate write
\* none, so a pair never gets more than one, and exactly one while its row exists.
C10_OneNotificationPerCreation ==
    \A s \in Students, e \in Events :
        /\ mails[s, e] = creations[s, e]
        /\ mails[s, e] <= 1
        /\ student[s].st # "deleted" => mails[s, e] = Cardinality(Rows(attendance, s, e))

\* a duplicate write has happened and the pair still has its one e-mail
C10_Witness ==
    \E p \in Procs :
        /\ HasWritten(p) /\ ~proc[p].created /\ ~Failed(p)
        /\ mails[LastTarget(p), proc[p].event] = 1
        /\ Rows(attendance, LastTarget(p), proc[p].event) # {}

\* C11: every manual row carries non-empty notes, also when admin_notes was
\* submitted empty; every row a group submission created is automatic and
\* has no notes.
C11_ManualRowsHaveNotes ==
    /\ \A r \in attendance :
          IF r.is_manual
          THEN ~NotesEmpty(r.notes) /\ r.marked_by = Admin
          ELSE r.notes = <<>> /\ r.marked_by = Coordinator
    /\ \A p \in Procs : \A k \in 1..Len(proc[p].made) :
          \A r \in Rows(attendance, proc[p].made[k], proc[p].event) :
              r.is_manual = ManualReq(p)

\* a manual row written with an empty admin_notes field, next to an automatic row
C11_Witness ==
    /\ \E r \in attendance : r.is_manual /\ r.notes[2] = ""
    /\ \E r \in attendance : ~r.is_manual

\* cutoffs around the program's
Cutoffs == {50, Threshold, 85}

\* the identities accepted from a submission's results under a cutoff: the
\* label map's identity of every result that passes the acceptance test
AcceptedAt(p, cutoff) ==
    {LabelGet(proc[p].r.lids, proc[p].results[k].label) :
        k \in {j \in 1..Len(proc[p].results) :
            /\ AcceptAt(proc[p].results[j].confidence, cutoff)
            /\ LabelGet(proc[p].r.lids, proc[p].results[j].label) # None}}

\* C12: for the results of one submission, a lower cutoff accepts a subset
\* of what a higher cutoff accepts.
C12_CutoffMonotone ==
    \A p \in Procs : \A t1, t2 \in Cutoffs :
        GroupReq(p) /\ proc[p].results # <<>> /\ t1 < t2
            => AcceptedAt(p, t1) \subseteq AcceptedAt(p, t2)

\* three results of which the lower cutoffs accept none, one and two identities
C12_Witness ==
    \E p \in Procs :
        /\ GroupReq(p) /\ Len(proc[p].results) = 3
        /\ AcceptedAt(p, 50) = {}
        /\ AcceptedAt(p, Threshold) = {"s1"}
        /\ AcceptedAt(p, 85) = {"s1", "s2"}

RecognizeCall(p) == proc[p].kind = "rf"
TrainCall(p) == proc[p].kind = "lt"

\* C13: a recognize_face that ran the classifier read a (model, label map)
\* pair that one training produced, never the model of one training with
\* the label map of another.
C13_PairNeverPartial ==
    \A p \in Procs :
        RecognizeCall(p) /\ proc[p].pc = "done" /\ proc[p].predicted
            => proc[p].seen.model = proc[p].seen.lids

\* the call failed: load_and_train returned False, or the input image of a
\* recognize_face on an already trained instance was unreadable
CallFailed(p) ==
    /\ proc[p].pc = "done"
    /\ \/ (RecognizeCall(p) \/ TrainCall(p)) /\ proc[p].trainRet = "False"
       \/ RecognizeCall(p) /\ proc[p].trainRet = "none" /\ proc[p].cause = "unreadable"

C18_NoFaceDistinct ==
    \A p, q \in Procs :
        (/\ RecognizeCall(p) /\ RecognizeCall(q)
         /\ proc[p].pc = "done" /\ proc[q].pc = "done"
         /\ proc[p].cause = "no_face" /\ proc[q].cause = "unreadable")
        => proc[p].result # proc[q].result

\* the identity of the first face, in detection order, whose confidence is
\* below the cutoff and whose label the map holds; faces without are skipped
RECURSIVE FirstMapped(_, _, _)
FirstMapped(r, faces, k) ==
    IF k > Len(faces) THEN None
    ELSE LET pr == Predict(r.model, faces[k])
         IN IF AcceptConf(pr.confidence) /\ LabelGet(r.lids, pr.label) # None
            THEN LabelGet(r.lids, pr.label)
            ELSE FirstMapped(r, faces, k + 1)

\* C19: recognize_face returns the identity of the first accepted face; a
\* face whose label has no mapping is skipped and a later accepted face is
\* still returned.
C19_UnmappedSkipped ==
    \A p \in Procs :
        RecognizeCall(p) /\ proc[p].pc = "done" /\ proc[p].predicted
            => proc[p].result = FirstMapped(proc[p].seen, Faces(p), 1)

\* C15: a group submission that follows a completed submission, for which
\* the model was trained successfully, runs no training of its own.
C15_TrainedOnce ==
    \A p \in Procs : GroupReq(p) /\ proc[p].repeat => proc[p].trainRet = "none"

\* C16: a group submission that invoked the classifier has processed every
\* detected face and completes with its counts.
C16_FaceFailureSkipped ==
    \A p \in Procs :
        GroupReq(p) /\ proc[p].pc = "done" /\ proc[p].predicted
            => Len(proc[p].results) = Len(Faces(p)) /\ proc[p].outcome = "ok"

\* C17: a group submission of an undecodable image completes as an
\* invalid-image error: no training, no classifier call, no row, no e-mail,
\* and its temporary file is removed.
C17_UnreadableIsPerCallError ==
    \A p \in Procs :
        GroupReq(p) /\ ~Readable(proc[p].photo) =>
            /\ proc[p].pc = "done" /\ proc[p].outcome = "invalid_image"
            /\ proc[p].trainRet = "none" /\ ~proc[p].predicted
            /\ proc[p].recognized = <<>> /\ proc[p].made = <<>> /\ proc[p].mailed = <<>>
            /\ proc[p].count = 0
            /\ files[proc[p].name] = Absent
            /\ \A r \in attendance : r.attendance_time # proc[p].now

\* an undecodable image was submitted while another submission had written rows
C17_Witness ==
    \E p, q \in Procs :
        /\ GroupReq(p) /\ ~Readable(proc[p].photo) /\ proc[p].pc = "done"
        /\ GroupReq(q) /\ proc[q].made # <<>>
        /\ attendance # {}

\* the rows in the table that request p inserted
RowsOf(p) == {r \in attendance : r.attendance_time = proc[p].now}

\* C20: the count of a group or manual submission is the number of rows it
\* created itself; it is at most the number of distinct accepted (selected)
\* students, which is at most the number of detected faces (submitted ids).
C20_CountIsOwnCreations ==
    \A p \in Procs :
        GroupReq(p) \/ ManualReq(p) =>
            /\ proc[p].count = Len(proc[p].made)
            /\ proc[p].stable => proc[p].count = Cardinality(RowsOf(p))
            /\ Cardinality(RowsOf(p)) <= proc[p].count
            /\ proc[p].count <= Cardinality(SeqToSet(Targets(p)))
            /\ Cardinality(SeqToSet(Targets(p))) <=
                  IF GroupReq(p) THEN Len(Faces(p)) ELSE Len(proc[p].ids)

\* two finished submissions for the same two students, run concurrently,
\* each report one of the two rows
C20_Witness ==
    \E p, q \in Procs :
        /\ p # q /\ proc[p].pc = "done" /\ proc[q].pc = "done"
        /\ GroupReq(p) /\ ManualReq(q) /\ proc[p].stable /\ proc[q].stable
        /\ SeqToSet(Targets(p)) = {"s1", "s2"} /\ SeqToSet(Targets(q)) = {"s1", "s2"}
        /\ proc[p].count = 1 /\ proc[q].count = 1
        /\ Cardinality(RowsOf(p)) = 1 /\ Cardinality(RowsOf(q)) = 1

\* request p has read its temporary file
HasRead(p) == GroupReq(p) /\ proc[p].pc \notin {"write", "read"}

\* C21: every group submission decodes the image it uploaded, also when
\* another submission in progress uploaded under the same file name.
C21_ReadsOwnUpload ==
    \A p \in Procs :
        HasRead(p) => /\ Readable(proc[p].photo) = Readable(proc[p].upload)
                      /\ Detect(proc[p].photo) = Detect(proc[p].upload)

\* the labels of a label map that resolve to student s
LabelsOf(lids, s) == {k \in 0..(Len(lids) - 1) : LabelGet(lids, k) = s}

\* C22: after a successful load_and_train the label map's domain is exactly
\* 0..n-1 for the n training faces given to the classifier, each label maps to
\* the active student whose reference photo produced that face, and every
\* label the classifier returns resolves to an identity.
C22_LabelMapTotal ==
    \A p \in Procs :
        GroupReq(p) /\ proc[p].trainRet = "True" =>
            LET r == proc[p].r
                n == Len(r.model)
            IN /\ r.has /\ n > 0
               /\ \A k \in 0..(n - 1) : LabelGet(r.lids, k) = r.model[k + 1]
               /\ LabelGet(r.lids, n) = None /\ LabelGet(r.lids, 0 - 1) = None
               /\ \A k \in 1..Len(proc[p].results) :
                     LabelGet(r.lids, proc[p].results[k].label) \in Students
               /\ proc[p].stable =>
                     \A s \in Students :
                         Cardinality(LabelsOf(r.lids, s)) =
                             IF student[s].st = "active" THEN student[s].nf ELSE 0

\* a submission trained on the reference faces of two students and has
\* classified all the faces of its photo
C22_Witness ==
    \E p \in Procs :
        /\ GroupReq(p) /\ proc[p].trainRet = "True" /\ proc[p].stable
        /\ LabelsOf(proc[p].r.lids, "s1") # {} /\ LabelsOf(proc[p].r.lids, "s2") # {}
        /\ Len(proc[p].results) = 3

\* request p takes a step of its own
Steps(p) == proc'[p].pc # proc[p].pc \/ proc'[p].i # proc[p].i

\* the student the label of the face that group request p is about to classify maps to
FaceStudent(p) ==
    LabelGet(proc[p].r.lids, Predict(proc[p].r.model, Faces(p)[proc[p].i]).label)

C24_OnlyApprovedEvents ==
    [][\A r \in attendance' \ attendance : status[r.event] = "approved"]_vars

====
